---- MODULE Spec2Model ----
(***************************************************************************)
(* FinancialFlow: the FinanceTracker component                             *)
(* (src/components/components-finance-tracker.tsx) as a state machine.     *)
(*                                                                         *)
(* Money is held in cents (an amount "2.5" is 250), so the two-decimal     *)
(* amounts the validators accept are exact integers; ratios are exact      *)
(* rationals <<numerator, denominator>>.  Text typed into numeric inputs   *)
(* is a sequence of one-character strings, so that validateNumber and      *)
(* parseFloat are computed character by character.                         *)
(***************************************************************************)
EXTENDS Integers, Sequences, FiniteSets, TLC

(***************************************************************************)
(* Bounds of the model.                                                    *)
(***************************************************************************)
\* longest transaction list the ledger actions build
MaxTx == 2
\* the score inputs are the multiples of 50 cents from -50 to 50 * MaxUnits
MaxUnits == 3
\* running totals and balances stay within MaxMoney whole currency units
MaxMoney == 3
\* user actions in a session of the whole application
MaxOps == 4
\* longest lists of goals and of budget categories the plan actions build
MaxGoals == 2
MaxBudget == 2
\* the recommendation inputs lie up to MaxSteps steps on either side of the
\* thresholds 20, 3 and 0.7
MaxSteps == 2

(***************************************************************************)
(* Exact rationals: <<n, d>> with d > 0 and gcd(n, d) = 1.  Each operator  *)
(* binds its arguments to x, so that an argument is evaluated once however *)
(* often the operator uses it.                                             *)
(***************************************************************************)
Abs(x) == IF x < 0 THEN -x ELSE x

RECURSIVE Gcd(_, _)
Gcd(a, b) ==
    CHOOSE g \in { IF x[2] = 0 THEN x[1] ELSE Gcd(x[2], x[1] % x[2]) : x \in {<<a, b>>} } : TRUE

Rat(n, d) ==
    CHOOSE r \in { LET s == IF x[2] < 0 THEN -1 ELSE 1
                       g == Gcd(Abs(x[1]), Abs(x[2]))
                   IN  <<(s * x[1]) \div g, (s * x[2]) \div g>> : x \in {<<n, d>>} } : TRUE

RatInt(k) == <<k, 1>>
RatAdd(p, q) ==
    CHOOSE r \in { Rat(x[1][1] * x[2][2] + x[2][1] * x[1][2], x[1][2] * x[2][2]) :
                      x \in {<<p, q>>} } : TRUE
RatSub(p, q) ==
    CHOOSE r \in { Rat(x[1][1] * x[2][2] - x[2][1] * x[1][2], x[1][2] * x[2][2]) :
                      x \in {<<p, q>>} } : TRUE
RatMul(p, q) ==
    CHOOSE r \in { Rat(x[1][1] * x[2][1], x[1][2] * x[2][2]) : x \in {<<p, q>>} } : TRUE
RatLess(p, q) == p[1] * q[2] < q[1] * p[2]
RatLeq(p, q) == p[1] * q[2] <= q[1] * p[2]
RatMax(p, q) == CHOOSE r \in { IF RatLess(x[1], x[2]) THEN x[2] ELSE x[1] : x \in {<<p, q>>} } : TRUE
RatMin(p, q) == CHOOSE r \in { IF RatLess(x[2], x[1]) THEN x[2] ELSE x[1] : x \in {<<p, q>>} } : TRUE

(***************************************************************************)
(* Text of numeric inputs, validateNumber, parseFloat.                     *)
(***************************************************************************)
Digits == <<"0", "1", "2", "3", "4", "5", "6", "7", "8", "9">>

IsDigit(c) == \E i \in 1..Len(Digits) : Digits[i] = c

DigitValue(c) == (CHOOSE i \in 1..Len(Digits) : Digits[i] = c) - 1

AllDigits(s) == \A i \in 1..Len(s) : IsDigit(s[i])

\* position of the first "." of s, or 0
DotAt(s) ==
    IF \E i \in 1..Len(s) : s[i] = "."
    THEN CHOOSE i \in 1..Len(s) : s[i] = "." /\ \A j \in 1..(i - 1) : s[j] # "."
    ELSE 0

RECURSIVE DigitsValue(_)
DigitsValue(s) ==
    IF s = <<>> THEN 0
    ELSE 10 * DigitsValue(SubSeq(s, 1, Len(s) - 1)) + DigitValue(s[Len(s)])

\* validateNumber without the limit on the number of decimals: /^\d+(\.\d+)?$/
validateNumberAnyDecimals(value) ==
    LET dot == DotAt(value)
        int == IF dot = 0 THEN value ELSE SubSeq(value, 1, dot - 1)
        frac == IF dot = 0 THEN <<>> ELSE SubSeq(value, dot + 1, Len(value))
    IN  /\ Len(int) >= 1
        /\ AllDigits(int)
        /\ dot # 0 => (Len(frac) >= 1 /\ AllDigits(frac))

\* /^\d+(\.\d{1,2})?$/.test(value) && parseFloat(value) >= 0
validateNumber(value) ==
    LET dot == DotAt(value)
        int == IF dot = 0 THEN value ELSE SubSeq(value, 1, dot - 1)
        frac == IF dot = 0 THEN <<>> ELSE SubSeq(value, dot + 1, Len(value))
    IN  /\ Len(int) >= 1
        /\ AllDigits(int)
        /\ dot # 0 => (Len(frac) \in 1..2 /\ AllDigits(frac))

\* parseFloat of a text validateNumber accepts, in cents
parseFloat(value) ==
    LET dot == DotAt(value)
        int == IF dot = 0 THEN value ELSE SubSeq(value, 1, dot - 1)
        frac == IF dot = 0 THEN <<>> ELSE SubSeq(value, dot + 1, Len(value))
        cents == IF Len(frac) = 0 THEN 0
                 ELSE IF Len(frac) = 1 THEN 10 * DigitsValue(frac)
                 ELSE DigitsValue(frac)
    IN  100 * DigitsValue(int) + cents

\* /^[a-zA-Z\s]{2,30}$/ over the names the model types
Letters == {"A", "l", "a", "n", " "}

validateName(value) ==
    /\ Len(value) >= 2
    /\ Len(value) <= 30
    /\ \A i \in 1..Len(value) : value[i] \in Letters

(***************************************************************************)
(* calculateFinancialHealth                                                *)
(***************************************************************************)
\* the score with the range clamp left out (Math.max only)
calculateFinancialHealthNoUpperClamp(income_, expenses_, savings, debt_) ==
    IF income_ = 0 THEN RatInt(0)
    ELSE LET raw == RatAdd(RatAdd(RatMul(Rat(savings, income_), RatInt(40)),
                                  RatMul(RatSub(RatInt(1), Rat(debt_, income_)), RatInt(30))),
                           RatMul(RatSub(RatInt(1), Rat(expenses_, income_)), RatInt(30)))
         IN  RatMax(RatMul(raw, RatInt(100)), RatInt(0))

\* the score with the zero-income guard left out: x / 0 is +Infinity, -Infinity
\* or NaN, and Math.min(Math.max(., 0), 100) of those is 100, 0 or NaN
calculateFinancialHealthNoGuard(income_, expenses_, savings, debt_) ==
    IF income_ = 0
    THEN IF savings > 0 \/ debt_ < 0 \/ expenses_ < 0 THEN RatInt(100) ELSE RatInt(-1)
    ELSE LET raw == RatAdd(RatAdd(RatMul(Rat(savings, income_), RatInt(40)),
                                  RatMul(RatSub(RatInt(1), Rat(debt_, income_)), RatInt(30))),
                           RatMul(RatSub(RatInt(1), Rat(expenses_, income_)), RatInt(30)))
         IN  RatMin(RatMax(RatMul(raw, RatInt(100)), RatInt(0)), RatInt(100))

calculateFinancialHealth(income_, expenses_, savings, debt_) ==
    IF income_ = 0 THEN RatInt(0)
    ELSE LET savingsRate == Rat(savings, income_)
             debtToIncomeRatio == Rat(debt_, income_)
             expenseRatio == Rat(expenses_, income_)
             score0 == RatInt(0)
             score1 == RatAdd(score0, RatMul(savingsRate, RatInt(40)))
             score2 == RatAdd(score1, RatMul(RatSub(RatInt(1), debtToIncomeRatio), RatInt(30)))
             score3 == RatAdd(score2, RatMul(RatSub(RatInt(1), expenseRatio), RatInt(30)))
         IN  RatMin(RatMax(RatMul(score3, RatInt(100)), RatInt(0)), RatInt(100))

(***************************************************************************)
(* generateBudgetRecommendations: the titles of the recommendations, in    *)
(* the order they are pushed (the icon and the text of an entry are fixed  *)
(* by its title and the inputs).                                           *)
(***************************************************************************)
\* the recommendations with the else branch of the savings test and the
\* empty-list fallback left out
generateBudgetRecommendationsNoElse(savingsRate, emergencyFund, expenseToIncomeRatio) ==
    LET r1 == IF RatLeq(RatInt(20), savingsRate) THEN <<"Savings Superstar">> ELSE <<>>
        r2 == IF RatLess(emergencyFund, RatInt(3))
              THEN Append(r1, "Emergency Fund Alert") ELSE r1
    IN  IF RatLess(Rat(7, 10), expenseToIncomeRatio)
        THEN Append(r2, "Income-Expense Gap") ELSE r2

\* the recommendations with the three comparisons moved off their boundary:
\* savingsRate > 20, emergencyFund <= 3, expenseToIncomeRatio >= 0.7
generateBudgetRecommendationsOffBoundary(savingsRate, emergencyFund, expenseToIncomeRatio) ==
    LET r1 == IF RatLess(RatInt(20), savingsRate)
              THEN <<"Savings Superstar">> ELSE <<"Savings Boost Needed">>
        r2 == IF RatLeq(emergencyFund, RatInt(3))
              THEN Append(r1, "Emergency Fund Alert") ELSE r1
    IN  IF RatLeq(Rat(7, 10), expenseToIncomeRatio)
        THEN Append(r2, "Income-Expense Gap") ELSE r2

generateBudgetRecommendations(savingsRate, emergencyFund, expenseToIncomeRatio) ==
    LET r1 == IF RatLeq(RatInt(20), savingsRate)
              THEN <<"Savings Superstar">> ELSE <<"Savings Boost Needed">>
        r2 == IF RatLess(emergencyFund, RatInt(3))
              THEN Append(r1, "Emergency Fund Alert") ELSE r1
        r3 == IF RatLess(Rat(7, 10), expenseToIncomeRatio)
              THEN Append(r2, "Income-Expense Gap") ELSE r2
    IN  IF Len(r3) = 0 THEN Append(r3, "Financial Health Check") ELSE r3

(***************************************************************************)
(* State of the component (the useState cells), the localStorage item, and *)
(* the position of the score effect.                                       *)
(***************************************************************************)
VARIABLES
    showQuestionnaire,     \* the onboarding overlay is shown
    chequingBalance, savingsBalance, income, expenses, debt,
    transactions,          \* most recent first
    goals, budgetCategories,
    userData,              \* the profile form: texts
    financialHealthScore,  \* a rational
    recommendationInputs,  \* the arguments of the rendered recommendations card
    recommendations,       \* the recommendations the card shows
    effectPending,         \* the score effect is scheduled and has not run
    crashed,               \* an effect threw: React has removed the component tree
    exported,              \* the file financial_data.json that exportData downloaded
    storage,               \* localStorage item financeTrackerData
    toast,                 \* description of the last toast shown
    last,                  \* history: the last user action and the state before it
    undone,                \* history: the add that the last action, a delete, undid
    maxId,                 \* history: the largest transaction id assigned so far
    ops                    \* history: user actions of the session so far

fin == <<chequingBalance, savingsBalance, income, expenses, debt,
         transactions, goals, budgetCategories>>
vars == <<showQuestionnaire, fin, userData, financialHealthScore, recommendationInputs,
          recommendations, effectPending, crashed, exported, storage, toast, last, undone, maxId,
          ops>>

categories == <<"Food", "Transport", "Entertainment", "Utilities", "Rent",
                "Shopping", "Health", "Education", "Savings", "Other">>

Today == "2024-09-15"

EmptyText == <<>>

BlankUserData ==
    [name |-> EmptyText, chequingBalance |-> EmptyText, savingsBalance |-> EmptyText,
     monthlyIncome |-> EmptyText, monthlyExpenses |-> EmptyText]

(***************************************************************************)
(* Persistence: saveData writes JSON.stringify of the values of the render *)
(* the handler was created in, i.e. the state before the handler's own     *)
(* setState calls take effect.                                             *)
(***************************************************************************)
Absent == [item |-> "absent"]

\* a JSON text: its parsed value, or no value when it does not parse
JSONstringify(value) == [item |-> "text", parses |-> TRUE, value |-> value]

JSONobject(fields) == [kind |-> "object", fields |-> fields]

dataToSave ==
    JSONobject([chequingBalance |-> chequingBalance,
                savingsBalance |-> savingsBalance,
                income |-> income,
                expenses |-> expenses,
                debt |-> debt,
                transactions |-> transactions,
                goals |-> goals,
                budgetCategories |-> budgetCategories,
                userData |-> JSONobject(userData)])

saveData == storage' = JSONstringify(dataToSave)

(***************************************************************************)
(* History of user actions, kept for the claims about an operation and the *)
(* one right before it.                                                    *)
(***************************************************************************)
NoInput == <<>>

NoAction ==
    [op |-> "none", ok |-> FALSE, id |-> 0, input |-> NoInput, before |-> dataToSave,
     maxIdBefore |-> 0]

NoUndo == [active |-> FALSE]

\* op(id), given input, was the last user action, ok when it passed its
\* validation (for the onboarding, id is the largest id of the seed
\* transactions); the action undoes an add when it is the successful
\* deleteTransaction of the id that the action right before it, a successful
\* addTransaction, assigned
RecordInput(op, ok, id, input) ==
    /\ last' = [op |-> op, ok |-> ok, id |-> id, input |-> input, before |-> dataToSave,
                maxIdBefore |-> maxId]
    /\ undone' = IF /\ op = "deleteTransaction" /\ ok
                    /\ last.op = "addTransaction" /\ last.ok /\ last.id = id
                 THEN [active |-> TRUE, before |-> last.before, input |-> last.input]
                 ELSE NoUndo
    /\ maxId' = IF op = "addTransaction" /\ ok /\ id > maxId THEN id
                ELSE IF op = "handleQuestionnaireSubmit" /\ ok /\ id > maxId THEN id
                ELSE maxId

Record(op, ok, id) == RecordInput(op, ok, id, NoInput)

\* the arguments the render passes to generateBudgetRecommendations
RecommendationInputs(income_, expenses_, savingsBalance_) ==
    << IF income_ > 0 THEN RatMul(Rat(savingsBalance_, income_), RatInt(100)) ELSE RatInt(0),
       IF expenses_ > 0 THEN Rat(savingsBalance_, expenses_) ELSE RatInt(0),
       IF income_ > 0 THEN Rat(expenses_, income_) ELSE RatInt(0) >>

\* the recommendations card drawn from the arguments
Recommendations(inputs) == generateBudgetRecommendations(inputs[1], inputs[2], inputs[3])

\* the render after a handler, with debt left out of the dependencies of
\* the score effect
RerenderNoDebt ==
    /\ effectPending' = (<<income', expenses', savingsBalance'>>
                           # <<income, expenses, savingsBalance>>)
    /\ recommendationInputs' = RecommendationInputs(income', expenses', savingsBalance')
    /\ recommendations' = Recommendations(recommendationInputs')
    /\ UNCHANGED <<crashed, exported>>

\* the render after a handler: the card is drawn from the new state, and the
\* score effect is scheduled when one of its dependencies changed
Rerender ==
    /\ effectPending' = (<<income', expenses', savingsBalance', debt'>>
                           # <<income, expenses, savingsBalance, debt>>)
    /\ recommendationInputs' = RecommendationInputs(income', expenses', savingsBalance')
    /\ recommendations' = Recommendations(recommendationInputs')
    /\ UNCHANGED <<crashed, exported>>

Init ==
    /\ showQuestionnaire = TRUE
    /\ chequingBalance = 0
    /\ savingsBalance = 0
    /\ income = 0
    /\ expenses = 0
    /\ debt = 0
    /\ transactions = <<>>
    /\ goals = <<>>
    /\ budgetCategories = <<>>
    /\ userData = BlankUserData
    /\ financialHealthScore = RatInt(0)
    /\ recommendationInputs = RecommendationInputs(income, expenses, savingsBalance)
    /\ recommendations = Recommendations(recommendationInputs)
    /\ effectPending = FALSE
    /\ crashed = FALSE
    /\ exported = Absent
    /\ storage = Absent
    /\ toast = ""
    /\ last = NoAction
    /\ undone = NoUndo
    /\ maxId = 0
    /\ ops = 0

(***************************************************************************)
(* useEffect(..., [income, expenses, savingsBalance, debt])                *)
(***************************************************************************)
ScoreEffect ==
    /\ effectPending
    /\ financialHealthScore' = calculateFinancialHealth(income, expenses, savingsBalance, debt)
    /\ effectPending' = FALSE
    /\ UNCHANGED <<showQuestionnaire, fin, userData, recommendationInputs, recommendations,
                   crashed, exported, storage, toast, last, undone, maxId, ops>>

(***************************************************************************)
(* Ledger                                                                  *)
(***************************************************************************)
\* updateGoalProgress without the test of the sign of the amount
updateGoalProgressAnyAmount(amount) ==
    goals' = [i \in 1..Len(goals) |-> [goals[i] EXCEPT !.current = @ + Abs(amount)]]

updateGoalProgress(amount) ==
    goals' = [i \in 1..Len(goals) |->
                [goals[i] EXCEPT !.current = @ + (IF amount > 0 THEN amount ELSE 0)]]

\* updateFinances that adds the signed amount to expenses
updateFinancesSignSlip(amount, account) ==
    /\ IF account = "chequing"
       THEN chequingBalance' = chequingBalance + amount /\ UNCHANGED savingsBalance
       ELSE savingsBalance' = savingsBalance + amount /\ UNCHANGED chequingBalance
    /\ IF amount > 0
       THEN income' = income + amount /\ UNCHANGED expenses
       ELSE expenses' = expenses + amount /\ UNCHANGED income
    /\ updateGoalProgress(amount)

\* updateFinances that posts every amount to the chequing account
updateFinancesOneAccount(amount, account) ==
    /\ chequingBalance' = chequingBalance + amount
    /\ UNCHANGED savingsBalance
    /\ IF amount > 0
       THEN income' = income + amount /\ UNCHANGED expenses
       ELSE expenses' = expenses - amount /\ UNCHANGED income
    /\ updateGoalProgress(amount)

updateFinances(amount, account) ==
    /\ IF account = "chequing"
       THEN chequingBalance' = chequingBalance + amount /\ UNCHANGED savingsBalance
       ELSE savingsBalance' = savingsBalance + amount /\ UNCHANGED chequingBalance
    /\ IF amount > 0
       THEN income' = income + amount /\ UNCHANGED expenses
       ELSE expenses' = expenses - amount /\ UNCHANGED income
    /\ updateGoalProgress(amount)

\* addTransaction that puts the new transaction at the end of the list
addTransactionAtEnd(nt) ==
    /\ ~effectPending
    /\ ~crashed
    /\ IF nt.description # "" /\ nt.amount # EmptyText /\ nt.category # "" /\ nt.account # ""
       THEN IF ~validateNumber(nt.amount)
            THEN /\ toast' = "Please enter a valid amount"
                 /\ RecordInput("addTransaction", FALSE, 0, nt)
                 /\ UNCHANGED <<fin, storage>>
            ELSE LET amount == IF nt.type = "income" THEN parseFloat(nt.amount)
                                                    ELSE -parseFloat(nt.amount)
                     transaction == [id |-> Len(transactions) + 1,
                                     date |-> nt.date,
                                     description |-> nt.description,
                                     amount |-> amount,
                                     type |-> nt.type,
                                     category |-> nt.category,
                                     account |-> nt.account]
                 IN  /\ transactions' = Append(transactions, transaction)
                     /\ updateFinances(amount, nt.account)
                     /\ saveData
                     /\ toast' = "Transaction added successfully"
                     /\ RecordInput("addTransaction", TRUE, transaction.id, nt)
                     /\ UNCHANGED <<debt, budgetCategories>>
       ELSE /\ toast' = "Please fill in all fields for the transaction"
            /\ RecordInput("addTransaction", FALSE, 0, nt)
            /\ UNCHANGED <<fin, storage>>
    /\ UNCHANGED <<showQuestionnaire, userData, financialHealthScore>>
    /\ Rerender

\* nt is the content of the new-transaction form when the button is pressed
addTransaction(nt) ==
    /\ ~effectPending
    /\ ~crashed
    /\ IF nt.description # "" /\ nt.amount # EmptyText /\ nt.category # "" /\ nt.account # ""
       THEN IF ~validateNumber(nt.amount)
            THEN /\ toast' = "Please enter a valid amount"
                 /\ RecordInput("addTransaction", FALSE, 0, nt)
                 /\ UNCHANGED <<fin, storage>>
            ELSE LET amount == IF nt.type = "income" THEN parseFloat(nt.amount)
                                                    ELSE -parseFloat(nt.amount)
                     transaction == [id |-> Len(transactions) + 1,
                                     date |-> nt.date,
                                     description |-> nt.description,
                                     amount |-> amount,
                                     type |-> nt.type,
                                     category |-> nt.category,
                                     account |-> nt.account]
                 IN  /\ transactions' = <<transaction>> \o transactions
                     /\ updateFinances(amount, nt.account)
                     /\ saveData
                     /\ toast' = "Transaction added successfully"
                     /\ RecordInput("addTransaction", TRUE, transaction.id, nt)
                     /\ UNCHANGED <<debt, budgetCategories>>
       ELSE /\ toast' = "Please fill in all fields for the transaction"
            /\ RecordInput("addTransaction", FALSE, 0, nt)
            /\ UNCHANGED <<fin, storage>>
    /\ UNCHANGED <<showQuestionnaire, userData, financialHealthScore>>
    /\ Rerender

\* transactions.find(t => t.id === id): the first match, or none
Find(id) ==
    IF \E i \in 1..Len(transactions) : transactions[i].id = id
    THEN CHOOSE i \in 1..Len(transactions) :
            /\ transactions[i].id = id
            /\ \A j \in 1..(i - 1) : transactions[j].id # id
    ELSE 0

deleteTransaction(id) ==
    /\ ~effectPending
    /\ ~crashed
    /\ IF Find(id) # 0
       THEN LET transactionToDelete == transactions[Find(id)]
                keep(t) == t.id # id
            IN  /\ transactions' = SelectSeq(transactions, keep)
                /\ updateFinances(-transactionToDelete.amount, transactionToDelete.account)
                /\ saveData
                /\ toast' = "Transaction deleted successfully"
                /\ Record("deleteTransaction", TRUE, id)
                /\ UNCHANGED <<debt, budgetCategories>>
       ELSE /\ Record("deleteTransaction", FALSE, id)
            /\ UNCHANGED <<fin, storage, toast>>
    /\ UNCHANGED <<showQuestionnaire, userData, financialHealthScore>>
    /\ Rerender

\* transactions.filter(t => t.category === category && t.type === 'expense')
\*             .reduce((sum, t) => sum + Math.abs(t.amount), 0)
RECURSIVE CategoryTotal(_, _)
CategoryTotal(txs, category) ==
    IF txs = <<>> THEN 0
    ELSE (IF Head(txs).category = category /\ Head(txs).type = "expense"
          THEN Abs(Head(txs).amount) ELSE 0)
         + CategoryTotal(Tail(txs), category)

getCategoryData == [i \in 1..Len(categories) |-> CategoryTotal(transactions, categories[i])]

(***************************************************************************)
(* Onboarding and settings                                                 *)
(***************************************************************************)
validateUserData ==
    /\ validateName(userData.name)
    /\ validateNumber(userData.chequingBalance)
    /\ validateNumber(userData.savingsBalance)
    /\ validateNumber(userData.monthlyIncome)
    /\ validateNumber(userData.monthlyExpenses)

SeedTransactions(initialChequingBalance, initialSavingsBalance, monthlyIncome, monthlyExpenses) ==
    << [id |-> 1, date |-> Today, description |-> "Initial Chequing Balance",
        amount |-> initialChequingBalance, type |-> "income", category |-> "Other",
        account |-> "chequing"],
       [id |-> 2, date |-> Today, description |-> "Initial Savings Balance",
        amount |-> initialSavingsBalance, type |-> "income", category |-> "Other",
        account |-> "savings"],
       [id |-> 3, date |-> Today, description |-> "Monthly Income",
        amount |-> monthlyIncome, type |-> "income", category |-> "Other",
        account |-> "chequing"],
       [id |-> 4, date |-> Today, description |-> "Monthly Expenses",
        amount |-> -monthlyExpenses, type |-> "expense", category |-> "Other",
        account |-> "chequing"] >>

\* the button is part of the onboarding overlay
handleQuestionnaireSubmit ==
    /\ ~effectPending
    /\ ~crashed
    /\ showQuestionnaire
    /\ IF validateUserData
       THEN LET initialChequingBalance == parseFloat(userData.chequingBalance)
                initialSavingsBalance == parseFloat(userData.savingsBalance)
                monthlyIncome == parseFloat(userData.monthlyIncome)
                monthlyExpenses == parseFloat(userData.monthlyExpenses)
            IN  /\ chequingBalance' = initialChequingBalance
                /\ savingsBalance' = initialSavingsBalance
                /\ income' = monthlyIncome
                /\ expenses' = monthlyExpenses
                /\ transactions' = SeedTransactions(initialChequingBalance,
                                        initialSavingsBalance, monthlyIncome, monthlyExpenses)
                /\ showQuestionnaire' = FALSE
                /\ saveData
                /\ toast' = "Welcome to FinancialFlow! Your initial data has been saved."
                /\ Record("handleQuestionnaireSubmit", TRUE, Len(transactions'))
                /\ UNCHANGED <<debt, goals, budgetCategories>>
       ELSE /\ Record("handleQuestionnaireSubmit", FALSE, 0)
            /\ UNCHANGED <<showQuestionnaire, fin, storage, toast>>
    /\ UNCHANGED <<userData, financialHealthScore>>
    /\ Rerender

saveSettings ==
    /\ ~effectPending
    /\ ~crashed
    /\ IF validateUserData
       THEN /\ chequingBalance' = parseFloat(userData.chequingBalance)
            /\ savingsBalance' = parseFloat(userData.savingsBalance)
            /\ income' = parseFloat(userData.monthlyIncome)
            /\ expenses' = parseFloat(userData.monthlyExpenses)
            /\ saveData
            /\ toast' = "Settings updated successfully"
            /\ Record("saveSettings", TRUE, 0)
            /\ UNCHANGED <<debt, transactions, goals, budgetCategories>>
       ELSE /\ toast' = "Please enter valid values for all fields"
            /\ Record("saveSettings", FALSE, 0)
            /\ UNCHANGED <<fin, storage>>
    /\ UNCHANGED <<showQuestionnaire, userData, financialHealthScore>>
    /\ Rerender

(***************************************************************************)
(* Goals and budget categories                                             *)
(***************************************************************************)
\* ng is the content of the new-goal form
addGoal(ng) ==
    /\ ~effectPending
    /\ ~crashed
    /\ IF ng.name # "" /\ ng.target # EmptyText /\ ng.current # EmptyText /\ ng.deadline # ""
       THEN IF ~validateNumber(ng.target) \/ ~validateNumber(ng.current)
            THEN /\ toast' = "Please enter valid numbers for goal amounts"
                 /\ RecordInput("addGoal", FALSE, 0, ng)
                 /\ UNCHANGED <<goals, storage>>
            ELSE LET goal == [id |-> Len(goals) + 1,
                              name |-> ng.name,
                              target |-> parseFloat(ng.target),
                              current |-> parseFloat(ng.current),
                              deadline |-> ng.deadline]
                 IN  /\ goals' = Append(goals, goal)
                     /\ saveData
                     /\ toast' = "Goal added successfully"
                     /\ RecordInput("addGoal", TRUE, goal.id, ng)
       ELSE /\ toast' = "Please fill in all fields for the goal"
            /\ RecordInput("addGoal", FALSE, 0, ng)
            /\ UNCHANGED <<goals, storage>>
    /\ UNCHANGED <<showQuestionnaire, chequingBalance, savingsBalance, income, expenses,
                   debt, transactions, budgetCategories, userData, financialHealthScore>>
    /\ Rerender

\* deleteGoal with the test of the filter inverted (g.id === id)
deleteGoalInverted(id) ==
    /\ ~effectPending
    /\ ~crashed
    /\ LET keep(g) == g.id = id
       IN  goals' = SelectSeq(goals, keep)
    /\ saveData
    /\ toast' = "Goal deleted successfully"
    /\ Record("deleteGoal", TRUE, id)
    /\ UNCHANGED <<showQuestionnaire, chequingBalance, savingsBalance, income, expenses,
                   debt, transactions, budgetCategories, userData, financialHealthScore>>
    /\ Rerender

deleteGoal(id) ==
    /\ ~effectPending
    /\ ~crashed
    /\ LET keep(g) == g.id # id
       IN  goals' = SelectSeq(goals, keep)
    /\ saveData
    /\ toast' = "Goal deleted successfully"
    /\ Record("deleteGoal", TRUE, id)
    /\ UNCHANGED <<showQuestionnaire, chequingBalance, savingsBalance, income, expenses,
                   debt, transactions, budgetCategories, userData, financialHealthScore>>
    /\ Rerender

\* nb is the content of the new-budget-category form
addBudgetCategory(nb) ==
    /\ ~effectPending
    /\ ~crashed
    /\ IF nb.category # "" /\ nb.limit # EmptyText
       THEN IF ~validateNumber(nb.limit)
            THEN /\ toast' = "Please enter a valid budget limit"
                 /\ RecordInput("addBudgetCategory", FALSE, 0, nb)
                 /\ UNCHANGED <<budgetCategories, storage>>
            ELSE LET category == [category |-> nb.category, limit |-> parseFloat(nb.limit)]
                 IN  /\ budgetCategories' = Append(budgetCategories, category)
                     /\ saveData
                     /\ toast' = "Budget category added successfully"
                     /\ RecordInput("addBudgetCategory", TRUE, 0, nb)
       ELSE /\ toast' = "Please fill in all fields for the budget category"
            /\ RecordInput("addBudgetCategory", FALSE, 0, nb)
            /\ UNCHANGED <<budgetCategories, storage>>
    /\ UNCHANGED <<showQuestionnaire, chequingBalance, savingsBalance, income, expenses,
                   debt, transactions, goals, userData, financialHealthScore>>
    /\ Rerender

deleteBudgetCategory(category) ==
    /\ ~effectPending
    /\ ~crashed
    /\ LET keep(c) == c.category # category
       IN  budgetCategories' = SelectSeq(budgetCategories, keep)
    /\ saveData
    /\ toast' = "Budget category deleted successfully"
    /\ RecordInput("deleteBudgetCategory", TRUE, 0, category)
    /\ UNCHANGED <<showQuestionnaire, chequingBalance, savingsBalance, income, expenses,
                   debt, transactions, goals, userData, financialHealthScore>>
    /\ Rerender

\* the sum of the absolute amounts of the transactions of a category, of
\* either type
RECURSIVE CategoryAmounts(_, _)
CategoryAmounts(txs, category) ==
    IF txs = <<>> THEN 0
    ELSE (IF Head(txs).category = category THEN Abs(Head(txs).amount) ELSE 0)
         + CategoryAmounts(Tail(txs), category)

\* the comparison without the test of the transaction type
getBudgetComparisonDataAnyType ==
    [i \in 1..Len(budgetCategories) |->
        [category |-> budgetCategories[i].category,
         limit |-> budgetCategories[i].limit,
         spent |-> CategoryAmounts(transactions, budgetCategories[i].category)]]

getBudgetComparisonData ==
    [i \in 1..Len(budgetCategories) |->
        [category |-> budgetCategories[i].category,
         limit |-> budgetCategories[i].limit,
         spent |-> CategoryTotal(transactions, budgetCategories[i].category)]]

(***************************************************************************)
(* Profile form, reset, load and import                                    *)
(***************************************************************************)
\* onChange of a profile input (onboarding overlay or settings dialog)
handleSettingsChange(field, value) ==
    /\ ~effectPending
    /\ ~crashed
    /\ userData' = [userData EXCEPT ![field] = value]
    /\ Record("handleSettingsChange", TRUE, 0)
    /\ UNCHANGED <<showQuestionnaire, fin, financialHealthScore, storage, toast>>
    /\ Rerender

\* resetAllData without localStorage.removeItem
resetAllDataKeepStorage ==
    /\ ~effectPending
    /\ ~crashed
    /\ UNCHANGED storage
    /\ chequingBalance' = 0
    /\ savingsBalance' = 0
    /\ income' = 0
    /\ expenses' = 0
    /\ debt' = 0
    /\ transactions' = <<>>
    /\ goals' = <<>>
    /\ budgetCategories' = <<>>
    /\ userData' = BlankUserData
    /\ showQuestionnaire' = TRUE
    /\ toast' = "All data has been reset. Please enter your initial information."
    /\ Record("resetAllData", TRUE, 0)
    /\ UNCHANGED financialHealthScore
    /\ Rerender

resetAllData ==
    /\ ~effectPending
    /\ ~crashed
    /\ storage' = Absent
    /\ chequingBalance' = 0
    /\ savingsBalance' = 0
    /\ income' = 0
    /\ expenses' = 0
    /\ debt' = 0
    /\ transactions' = <<>>
    /\ goals' = <<>>
    /\ budgetCategories' = <<>>
    /\ userData' = BlankUserData
    /\ showQuestionnaire' = TRUE
    /\ toast' = "All data has been reset. Please enter your initial information."
    /\ Record("resetAllData", TRUE, 0)
    /\ UNCHANGED financialHealthScore
    /\ Rerender

\* exportData with debt left out of the file
dataToExportNoDebt ==
    JSONobject([chequingBalance |-> chequingBalance,
                savingsBalance |-> savingsBalance,
                income |-> income,
                expenses |-> expenses,
                transactions |-> transactions,
                goals |-> goals,
                budgetCategories |-> budgetCategories,
                userData |-> JSONobject(userData)])

dataToExport ==
    JSONobject([chequingBalance |-> chequingBalance,
                savingsBalance |-> savingsBalance,
                income |-> income,
                expenses |-> expenses,
                debt |-> debt,
                transactions |-> transactions,
                goals |-> goals,
                budgetCategories |-> budgetCategories,
                userData |-> JSONobject(userData)])

\* the export button: the file is written from the values of the current
\* render; no cell changes, so nothing is rendered again
exportData ==
    /\ ~effectPending
    /\ ~crashed
    /\ exported' = JSONstringify(dataToExport)
    /\ Record("exportData", TRUE, 0)
    /\ UNCHANGED <<showQuestionnaire, fin, userData, financialHealthScore,
                   recommendationInputs, recommendations, effectPending, crashed,
                   storage, toast>>

\* reading a property of null throws a TypeError; of any other value it works
Throws(data) == data.kind = "null"

Has(data, f) == data.kind = "object" /\ f \in DOMAIN data.fields

\* data.f || 0
NumberOr0(data, f) == IF Has(data, f) THEN data.fields[f] ELSE 0

\* data.f || []
ListOrEmpty(data, f) == IF Has(data, f) THEN data.fields[f] ELSE <<>>

\* data.userData?.f || default
TextOr(data, f, default) ==
    IF Has(data, "userData") /\ Has(data.fields.userData, f)
          /\ data.fields.userData.fields[f] # EmptyText
    THEN data.fields.userData.fields[f]
    ELSE default

Zero == <<"0">>

\* updateAllData that keeps the current value of a number or list the blob
\* does not have
updateAllDataKeepMissing(data) ==
    /\ chequingBalance' = (IF Has(data, "chequingBalance") THEN data.fields.chequingBalance
                                                           ELSE chequingBalance)
    /\ savingsBalance' = (IF Has(data, "savingsBalance") THEN data.fields.savingsBalance
                                                         ELSE savingsBalance)
    /\ income' = (IF Has(data, "income") THEN data.fields.income ELSE income)
    /\ expenses' = (IF Has(data, "expenses") THEN data.fields.expenses ELSE expenses)
    /\ debt' = (IF Has(data, "debt") THEN data.fields.debt ELSE debt)
    /\ transactions' = (IF Has(data, "transactions") THEN data.fields.transactions
                                                     ELSE transactions)
    /\ goals' = (IF Has(data, "goals") THEN data.fields.goals ELSE goals)
    /\ budgetCategories' = (IF Has(data, "budgetCategories") THEN data.fields.budgetCategories
                                                             ELSE budgetCategories)
    /\ userData' = [name |-> TextOr(data, "name", EmptyText),
                    chequingBalance |-> TextOr(data, "chequingBalance", Zero),
                    savingsBalance |-> TextOr(data, "savingsBalance", Zero),
                    monthlyIncome |-> TextOr(data, "monthlyIncome", Zero),
                    monthlyExpenses |-> TextOr(data, "monthlyExpenses", Zero)]
    /\ showQuestionnaire' = FALSE

updateAllData(data) ==
    /\ chequingBalance' = NumberOr0(data, "chequingBalance")
    /\ savingsBalance' = NumberOr0(data, "savingsBalance")
    /\ income' = NumberOr0(data, "income")
    /\ expenses' = NumberOr0(data, "expenses")
    /\ debt' = NumberOr0(data, "debt")
    /\ transactions' = ListOrEmpty(data, "transactions")
    /\ goals' = ListOrEmpty(data, "goals")
    /\ budgetCategories' = ListOrEmpty(data, "budgetCategories")
    /\ userData' = [name |-> TextOr(data, "name", EmptyText),
                    chequingBalance |-> TextOr(data, "chequingBalance", Zero),
                    savingsBalance |-> TextOr(data, "savingsBalance", Zero),
                    monthlyIncome |-> TextOr(data, "monthlyIncome", Zero),
                    monthlyExpenses |-> TextOr(data, "monthlyExpenses", Zero)]
    /\ showQuestionnaire' = FALSE

\* reader.onload of importData, with the text of the chosen file
importData(text) ==
    /\ ~effectPending
    /\ ~crashed
    /\ IF text.parses /\ ~Throws(text.value)
       THEN /\ updateAllData(text.value)
            /\ saveData
            /\ toast' = "Data imported successfully"
            /\ RecordInput("importData", TRUE, 0, text)
       ELSE /\ toast' = "Error importing data. Please check the file format."
            /\ RecordInput("importData", FALSE, 0, text)
            /\ UNCHANGED <<showQuestionnaire, fin, userData, storage>>
    /\ UNCHANGED financialHealthScore
    /\ Rerender

\* a page load: every cell takes its useState value, then the mount effect
\* reads localStorage; the score effect of the first render computes 0.
\* JSON.parse of a text that does not parse, and updateAllData(null), throw
\* out of the effect: nothing catches it and React removes the component
\* tree (the cells are left at their initial values).
Mount ==
    /\ ~effectPending
    /\ IF storage = Absent
       THEN /\ chequingBalance' = 0
            /\ savingsBalance' = 0
            /\ income' = 0
            /\ expenses' = 0
            /\ debt' = 0
            /\ transactions' = <<>>
            /\ goals' = <<>>
            /\ budgetCategories' = <<>>
            /\ userData' = BlankUserData
            /\ showQuestionnaire' = TRUE
            /\ crashed' = FALSE
            /\ RecordInput("Mount", TRUE, 0, storage)
       ELSE IF storage.parses /\ ~Throws(storage.value)
       THEN /\ updateAllData(storage.value)
            /\ crashed' = FALSE
            /\ RecordInput("Mount", TRUE, 0, storage)
       ELSE /\ chequingBalance' = 0
            /\ savingsBalance' = 0
            /\ income' = 0
            /\ expenses' = 0
            /\ debt' = 0
            /\ transactions' = <<>>
            /\ goals' = <<>>
            /\ budgetCategories' = <<>>
            /\ userData' = BlankUserData
            /\ showQuestionnaire' = TRUE
            /\ crashed' = TRUE
            /\ RecordInput("Mount", FALSE, 0, storage)
    /\ financialHealthScore' = RatInt(0)
    /\ effectPending' = (~crashed' /\ <<income', expenses', savingsBalance', debt'>> # <<0, 0, 0, 0>>)
    /\ recommendationInputs' = RecommendationInputs(income', expenses', savingsBalance')
    /\ recommendations' = Recommendations(recommendationInputs')
    /\ toast' = ""
    /\ UNCHANGED <<storage, exported>>

(***************************************************************************)
(* Inputs and specifications                                               *)
(***************************************************************************)
\* forms with every required field filled in and a valid amount: both types
\* on both accounts, and an expense of a second category
ValidTxForms ==
    [description : {"Item"}, amount : {<<"1">>}, type : {"income", "expense"},
     category : {"Food"}, date : {Today}, account : {"chequing", "savings"}]
    \cup
    [description : {"Item"}, amount : {<<"1">>}, type : {"expense"},
     category : {"Rent"}, date : {Today}, account : {"chequing"}]

\* one form for each way addTransaction rejects
InvalidTxForms ==
    { [description |-> "", amount |-> <<"1">>, type |-> "expense", category |-> "Food",
       date |-> Today, account |-> "chequing"],
      [description |-> "Item", amount |-> <<>>, type |-> "expense", category |-> "Food",
       date |-> Today, account |-> "chequing"],
      [description |-> "Item", amount |-> <<"1">>, type |-> "expense", category |-> "",
       date |-> Today, account |-> "chequing"],
      [description |-> "Item", amount |-> <<"x">>, type |-> "income", category |-> "Food",
       date |-> Today, account |-> "chequing"],
      [description |-> "Item", amount |-> <<"1", ".", "2", "3", "4">>, type |-> "income",
       category |-> "Food", date |-> Today, account |-> "savings"] }

Name == <<"A", "l", "a", "n">>

\* profiles typed into the onboarding form
Profiles ==
    [name : {Name}, chequingBalance : {<<"1">>}, savingsBalance : {<<"1">>},
     monthlyIncome : {<<"2">>}, monthlyExpenses : {<<"1">>}]

Cap == 100 * MaxMoney

\* the running totals, balances and goal progress stay within Cap
WithinBounds ==
    /\ Abs(chequingBalance) <= Cap
    /\ Abs(savingsBalance) <= Cap
    /\ income <= Cap
    /\ expenses <= Cap
    /\ \A i \in 1..Len(goals) : goals[i].current <= Cap

\* The ledger.  The profile form has been filled in; the overlay covers the
\* page until it is submitted, so the page's buttons are pressed only once it
\* is gone.  A page load (Mount) restores what was saved.
InitLedger ==
    /\ showQuestionnaire = TRUE
    /\ chequingBalance = 0
    /\ savingsBalance = 0
    /\ income = 0
    /\ expenses = 0
    /\ debt = 0
    /\ transactions = <<>>
    /\ goals = <<>>
    /\ budgetCategories = <<>>
    /\ userData \in Profiles
    /\ financialHealthScore = RatInt(0)
    /\ recommendationInputs = RecommendationInputs(income, expenses, savingsBalance)
    /\ recommendations = Recommendations(recommendationInputs)
    /\ effectPending = FALSE
    /\ crashed = FALSE
    /\ exported = Absent
    /\ storage = Absent
    /\ toast = ""
    /\ last = NoAction
    /\ undone = NoUndo
    /\ maxId = 0
    /\ ops = 0

SubmitLedger == handleQuestionnaireSubmit /\ UNCHANGED ops

AddTransactionLedger ==
    /\ ~showQuestionnaire
    /\ Len(transactions) < MaxTx
    /\ \E nt \in ValidTxForms : addTransaction(nt)
    /\ WithinBounds'
    /\ UNCHANGED ops

\* the delete button of a row of the transaction table
DeleteTransactionLedger ==
    /\ ~showQuestionnaire
    /\ \E i \in 1..Len(transactions) : deleteTransaction(transactions[i].id)
    /\ WithinBounds'
    /\ UNCHANGED ops

SaveSettingsLedger == ~showQuestionnaire /\ saveSettings /\ UNCHANGED ops

MountLedger == Mount /\ UNCHANGED ops

NextLedger ==
    \/ ScoreEffect
    \/ SubmitLedger
    \/ AddTransactionLedger
    \/ DeleteTransactionLedger
    \/ SaveSettingsLedger
    \/ MountLedger

SpecLedger == InitLedger /\ [][NextLedger]_vars

(***************************************************************************)
(* Claims about the ledger, checked under SpecLedger                       *)
(***************************************************************************)
RECURSIVE SumAmounts(_, _)
\* sum of the absolute amounts of the transactions of one type
SumAmounts(txs, type) ==
    IF txs = <<>> THEN 0
    ELSE (IF Head(txs).type = type THEN Abs(Head(txs).amount) ELSE 0)
         + SumAmounts(Tail(txs), type)

\* the signed amount of a form: +amount for income, -amount for expense
SignedAmount(nt) ==
    IF nt.type = "income" THEN parseFloat(nt.amount) ELSE -parseFloat(nt.amount)

JustAdded == last.op = "addTransaction" /\ last.ok

\* C2: after a valid addTransaction followed immediately by deleteTransaction
\* of the new transaction's id, income and expenses have the values they had
\* before the add.
C2_AddDeleteRestoresTotals ==
    undone.active =>
        /\ income = undone.before.fields.income
        /\ expenses = undone.before.fields.expenses

\* C3: a valid addTransaction on account a with signed amount s leaves the
\* balance of a at its value before plus s and the other balance unchanged;
\* deleteTransaction of the new id right afterwards restores both balances to
\* their values before the add.
C3_BalanceAddAndRoundTrip ==
    /\ JustAdded =>
          LET s == SignedAmount(last.input)
              b == last.before.fields
          IN  IF last.input.account = "chequing"
              THEN chequingBalance = b.chequingBalance + s
                   /\ savingsBalance = b.savingsBalance
              ELSE savingsBalance = b.savingsBalance + s
                   /\ chequingBalance = b.chequingBalance
    /\ undone.active =>
          /\ chequingBalance = undone.before.fields.chequingBalance
          /\ savingsBalance = undone.before.fields.savingsBalance

\* an expense posted to the savings account of a ledger that already holds
\* transactions has been added and deleted again
C3_Witness ==
    /\ undone.active
    /\ undone.input.account = "savings"
    /\ undone.input.type = "expense"
    /\ undone.before.fields.transactions # <<>>

\* C4: income is the sum of the amounts of the income-type transactions in
\* the list and expenses the sum of the absolute amounts of the expense-type
\* transactions in the list.
C4_TotalsMatchList ==
    /\ income = SumAmounts(transactions, "income")
    /\ expenses = SumAmounts(transactions, "expense")

\* C5: no two transactions in the list have the same id, and an id assigned
\* by addTransaction is greater than every id assigned before it.
C5_IdsUniqueAndIncreasing ==
    /\ \A i, j \in 1..Len(transactions) :
          i # j => transactions[i].id # transactions[j].id
    /\ JustAdded => last.id > last.maxIdBefore

\* C10: adding a transaction and then deleting that same transaction leaves
\* categoryTotal of every category at its value before the add.
C10_CategoryTotalRoundTrip ==
    undone.active =>
        \A i \in 1..Len(categories) :
            getCategoryData[i]
              = CategoryTotal(undone.before.fields.transactions, categories[i])

(***************************************************************************)
(* The score as a function of its inputs: the state after a load or an     *)
(* import that set the four dependencies of the score effect, then the     *)
(* effect.  Checked under SpecScore.                                       *)
(***************************************************************************)
ScoreInputs == {50 * k : k \in -1..MaxUnits}

InitScore ==
    /\ showQuestionnaire = FALSE
    /\ chequingBalance = 0
    /\ savingsBalance \in ScoreInputs
    /\ income \in ScoreInputs
    /\ expenses \in ScoreInputs
    /\ debt \in ScoreInputs
    /\ transactions = <<>>
    /\ goals = <<>>
    /\ budgetCategories = <<>>
    /\ userData = [BlankUserData EXCEPT !.chequingBalance = Zero, !.savingsBalance = Zero,
                                        !.monthlyIncome = Zero, !.monthlyExpenses = Zero]
    /\ financialHealthScore = RatInt(0)
    /\ recommendationInputs = RecommendationInputs(income, expenses, savingsBalance)
    /\ recommendations = Recommendations(recommendationInputs)
    /\ effectPending = TRUE
    /\ crashed = FALSE
    /\ exported = Absent
    /\ storage = Absent
    /\ toast = "Data imported successfully"
    /\ last = NoAction
    /\ undone = NoUndo
    /\ maxId = 0
    /\ ops = 0

NextScore == ScoreEffect

SpecScore == InitScore /\ [][NextScore]_vars

\* the score effect has run on the current inputs
Scored == ~effectPending

\* the score algorithm as specified:
\* clamp((savings/income*0.40 + (1 - debt/income)*0.30 + (1 - expenses/income)*0.30) * 100, 0, 100)
SpecifiedScore(i, e, s, d) ==
    LET raw == RatAdd(RatAdd(RatMul(Rat(s, i), Rat(40, 100)),
                             RatMul(RatSub(RatInt(1), Rat(d, i)), Rat(30, 100))),
                      RatMul(RatSub(RatInt(1), Rat(e, i)), Rat(30, 100)))
    IN  RatMin(RatMax(RatMul(raw, RatInt(100)), RatInt(0)), RatInt(100))

\* C6: for income # 0 the score is the value of the specified algorithm
\* (income 100, expenses 50, savings 0, debt 0 gives 45).
C6_ScoreIsSpecifiedValue ==
    (Scored /\ income # 0) =>
        financialHealthScore = SpecifiedScore(income, expenses, savingsBalance, debt)

\* C7: the score calculateFinancialHealth returns, and the stored
\* financialHealthScore, lie in [0, 100], negative savings included.
C7_ScoreInRange ==
    /\ RatLeq(RatInt(0), financialHealthScore)
    /\ RatLeq(financialHealthScore, RatInt(100))
    /\ RatLeq(RatInt(0), calculateFinancialHealth(income, expenses, savingsBalance, debt))
    /\ RatLeq(calculateFinancialHealth(income, expenses, savingsBalance, debt), RatInt(100))

\* the effect has stored the score of negative savings with expenses and debt
\* above the income, which the clamp raised to 0
C7_Witness ==
    /\ Scored
    /\ income > 0
    /\ savingsBalance < 0
    /\ expenses > income
    /\ debt > income
    /\ financialHealthScore = RatInt(0)

\* C8: when income is 0 the score is 0 whatever expenses, savings and debt are.
C8_ZeroIncomeScoresZero ==
    /\ (Scored /\ income = 0) => financialHealthScore = RatInt(0)
    /\ income = 0 =>
          calculateFinancialHealth(income, expenses, savingsBalance, debt) = RatInt(0)

\* the effect has run with income 0 and the other three inputs positive
C8_Witness ==
    /\ Scored
    /\ income = 0
    /\ expenses > 0
    /\ savingsBalance > 0
    /\ debt > 0

\* C9: for income > 0, score(income, 0, 0, 0) < score(income, 0, income, 0).
C9_SavingsRaiseScore ==
    (Scored /\ income > 0 /\ expenses = 0 /\ debt = 0 /\ savingsBalance = income) =>
        RatLess(calculateFinancialHealth(income, 0, 0, 0), financialHealthScore)

(***************************************************************************)
(* The whole application: sessions of at most MaxOps user actions, from a  *)
(* first page load with the profile form blank or filled in.               *)
(***************************************************************************)
\* what is typed over a field of the profile form
Typed(field) ==
    IF field = "name" THEN {<<"A">>}
    ELSE IF field = "monthlyIncome" THEN {<<"3">>, <<"x">>}
    ELSE {}

AppTxForms ==
    {nt \in ValidTxForms : nt.category = "Food" /\ nt.account = "savings"}
    \cup {nt \in InvalidTxForms : nt.description = "" \/ Len(nt.amount) > 1}

GoalForms ==
    { [name |-> "Vacation", target |-> <<"2">>, current |-> <<"1">>, deadline |-> "2025-12-31"],
      [name |-> "Vacation", target |-> <<"-", "2">>, current |-> <<"1">>,
       deadline |-> "2025-12-31"],
      [name |-> "", target |-> <<"2">>, current |-> <<"1">>, deadline |-> "2025-12-31"] }

BudgetForms ==
    { [category |-> "Food", limit |-> <<"1">>],
      [category |-> "Food", limit |-> <<"2">>],
      [category |-> "Food", limit |-> <<"1", ".", "2", "3", "4">>],
      [category |-> "Food", limit |-> <<>>] }

\* contents of the file chosen for import
Malformed == [item |-> "text", parses |-> FALSE]

SampleBlob ==
    [chequingBalance |-> 200, savingsBalance |-> 100, income |-> 200, expenses |-> 100,
     debt |-> 50,
     transactions |-> << [id |-> 1, date |-> Today, description |-> "Item", amount |-> -100,
                          type |-> "expense", category |-> "Food", account |-> "chequing"] >>,
     goals |-> << [id |-> 1, name |-> "Vacation", target |-> 200, current |-> 100,
                   deadline |-> "2025-12-31"] >>,
     budgetCategories |-> << [category |-> "Food", limit |-> 100] >>,
     userData |-> JSONobject([name |-> Name, chequingBalance |-> <<"2">>,
                              savingsBalance |-> <<"1">>, monthlyIncome |-> <<"2">>,
                              monthlyExpenses |-> <<"1">>])]

Restrict(f, S) == [x \in S |-> f[x]]

\* the sample with a debt of several times the income
IndebtedBlob == [SampleBlob EXCEPT !.debt = 500]

ImportTexts ==
    { Malformed,
      JSONstringify([kind |-> "null"]),
      JSONstringify([kind |-> "number"]),
      JSONstringify(JSONobject(Restrict(SampleBlob, DOMAIN SampleBlob \ {"debt"}))),
      JSONstringify(JSONobject(IndebtedBlob)) }

\* every action below is one user action of the session
TypeProfileApp ==
    /\ ops < MaxOps
    /\ \E field \in DOMAIN BlankUserData : \E value \in Typed(field) :
          handleSettingsChange(field, value)
    /\ ops' = ops + 1

SubmitApp == ops < MaxOps /\ handleQuestionnaireSubmit /\ ops' = ops + 1

AddTransactionApp ==
    /\ ops < MaxOps
    /\ ~showQuestionnaire
    /\ \E nt \in AppTxForms : addTransaction(nt)
    /\ ops' = ops + 1

\* the delete button of a row, or an id that is in no row
DeleteTransactionApp ==
    /\ ops < MaxOps
    /\ ~showQuestionnaire
    /\ \E id \in {transactions[i].id : i \in 1..Len(transactions)} \cup {0} :
          deleteTransaction(id)
    /\ ops' = ops + 1

AddGoalApp ==
    /\ ops < MaxOps
    /\ ~showQuestionnaire
    /\ \E ng \in GoalForms : addGoal(ng)
    /\ ops' = ops + 1

DeleteGoalApp ==
    /\ ops < MaxOps
    /\ ~showQuestionnaire
    /\ \E id \in {goals[i].id : i \in 1..Len(goals)} \cup {0} : deleteGoal(id)
    /\ ops' = ops + 1

AddBudgetCategoryApp ==
    /\ ops < MaxOps
    /\ ~showQuestionnaire
    /\ \E nb \in BudgetForms : addBudgetCategory(nb)
    /\ ops' = ops + 1

DeleteBudgetCategoryApp ==
    /\ ops < MaxOps
    /\ ~showQuestionnaire
    /\ \E c \in {"Food", "Rent"} : deleteBudgetCategory(c)
    /\ ops' = ops + 1

SaveSettingsApp == ops < MaxOps /\ ~showQuestionnaire /\ saveSettings /\ ops' = ops + 1

\* a file of the list, or the file exportData has just written
ImportDataApp ==
    /\ ops < MaxOps
    /\ ~showQuestionnaire
    /\ \E text \in ImportTexts \cup {JSONstringify(dataToExport)} : importData(text)
    /\ ops' = ops + 1

ResetAllDataApp == ops < MaxOps /\ ~showQuestionnaire /\ resetAllData /\ ops' = ops + 1

MountApp == ops < MaxOps /\ Mount /\ ops' = ops + 1

Next ==
    \/ ScoreEffect
    \/ TypeProfileApp
    \/ SubmitApp
    \/ AddTransactionApp
    \/ DeleteTransactionApp
    \/ AddGoalApp
    \/ DeleteGoalApp
    \/ AddBudgetCategoryApp
    \/ DeleteBudgetCategoryApp
    \/ SaveSettingsApp
    \/ ImportDataApp
    \/ ResetAllDataApp
    \/ MountApp

Spec == (Init \/ InitLedger) /\ [][Next]_vars

(***************************************************************************)
(* Claims about persistence, checked under Spec                            *)
(***************************************************************************)
Mutations ==
    {"handleQuestionnaireSubmit", "addTransaction", "deleteTransaction", "addGoal",
     "deleteGoal", "addBudgetCategory", "deleteBudgetCategory", "saveSettings", "importData"}

\* C1: after every completed mutation the persisted blob equals the in-memory
\* aggregate state that results from the mutation.
C1_PersistedEqualsState ==
    (last.ok /\ last.op \in Mutations) => storage = JSONstringify(dataToSave)

(***************************************************************************)
(* Claims about goal progress, checked under Spec                          *)
(***************************************************************************)
\* C11: a valid addTransaction of type income with amount a raises the
\* current of every existing goal by exactly a, and one of type expense leaves
\* the current of every goal unchanged; no goal is added, removed or otherwise
\* changed.
C11_IncomeRaisesEveryGoal ==
    JustAdded =>
        LET b == last.before.fields.goals
            a == IF last.input.type = "income" THEN parseFloat(last.input.amount) ELSE 0
        IN  /\ Len(goals) = Len(b)
            /\ \A i \in 1..Len(b) : goals[i] = [b[i] EXCEPT !.current = @ + a]

\* an income has been added while a goal existed, and the goal's current
\* went up by the amount
C11_Witness ==
    /\ JustAdded
    /\ last.input.type = "income"
    /\ Len(goals) >= 1
    /\ goals[1].current = last.before.fields.goals[1].current + parseFloat(last.input.amount)
    /\ goals[1].current > last.before.fields.goals[1].current

\* C20: deleteTransaction leaves the current of every goal at its value
\* before the delete, whether the deleted transaction is an income or an
\* expense.
C20_DeleteKeepsGoalProgress ==
    (last.op = "deleteTransaction" /\ last.ok) => goals = last.before.fields.goals

(***************************************************************************)
(* Claims about the budget categories, checked under Spec                  *)
(***************************************************************************)
\* the rows of a list of records whose category is c
RowsOf(rows, c) == {i \in 1..Len(rows) : rows[i].category = c}

\* C12: budgetCategories holds at most one entry per category; after
\* addBudgetCategory(c, l2) there is exactly one entry for c, its limit is l2,
\* and the comparison has exactly one row for c.
C12_OneEntryPerCategory ==
    /\ \A i, j \in 1..Len(budgetCategories) :
          i # j => budgetCategories[i].category # budgetCategories[j].category
    /\ (last.op = "addBudgetCategory" /\ last.ok) =>
          /\ Cardinality(RowsOf(budgetCategories, last.input.category)) = 1
          /\ \A i \in RowsOf(budgetCategories, last.input.category) :
                budgetCategories[i].limit = parseFloat(last.input.limit)
          /\ Cardinality(RowsOf(getBudgetComparisonData, last.input.category)) = 1

\* the expense-type transactions of category c in the list
ExpensesOf(c) ==
    {i \in 1..Len(transactions) :
        transactions[i].category = c /\ transactions[i].type = "expense"}

RECURSIVE SumAbs(_)
\* the sum of the absolute amounts of the transactions at the positions S
SumAbs(S) ==
    IF S = {} THEN 0
    ELSE LET i == CHOOSE k \in S : TRUE
         IN  Abs(transactions[i].amount) + SumAbs(S \ {i})

\* C13: the comparison has one row per entry of budgetCategories, in order,
\* with the entry's category and limit and with spent equal to the sum of the
\* absolute amounts of the expense-type transactions of that category that are
\* in the list; income-type transactions of the category are not counted.
C13_ComparisonRows ==
    /\ Len(getBudgetComparisonData) = Len(budgetCategories)
    /\ \A i \in 1..Len(budgetCategories) :
          getBudgetComparisonData[i]
            = [category |-> budgetCategories[i].category,
               limit |-> budgetCategories[i].limit,
               spent |-> SumAbs(ExpensesOf(budgetCategories[i].category))]

\* a tracked category is over its limit while the list also holds an income
\* of that category, which the row does not count
C13_Witness ==
    /\ Len(budgetCategories) >= 1
    /\ getBudgetComparisonData[1].spent > getBudgetComparisonData[1].limit
    /\ \E i \in 1..Len(transactions) :
          /\ transactions[i].category = budgetCategories[1].category
          /\ transactions[i].type = "income"
          /\ transactions[i].amount > 0

(***************************************************************************)
(* The recommendations as a function of their three arguments: the card    *)
(* is rendered with arguments around the thresholds, at zero and below     *)
(* zero.  Checked under SpecRecommend.                                     *)
(***************************************************************************)
\* percent, in steps of 1
SavingsRates ==
    {RatInt(20 + k) : k \in -MaxSteps..MaxSteps} \cup {RatInt(0), RatInt(-20)}

\* months, in steps of 1/2
EmergencyFunds ==
    {Rat(6 + k, 2) : k \in -MaxSteps..MaxSteps} \cup {RatInt(0), RatInt(-3)}

\* in steps of 1/100
ExpenseRatios ==
    {Rat(70 + k, 100) : k \in -MaxSteps..MaxSteps} \cup {RatInt(0), Rat(-7, 10)}

RenderRecommendations ==
    /\ \E savingsRate \in SavingsRates, emergencyFund \in EmergencyFunds,
          expenseToIncomeRatio \in ExpenseRatios :
          recommendationInputs' = <<savingsRate, emergencyFund, expenseToIncomeRatio>>
    /\ recommendations' = Recommendations(recommendationInputs')
    /\ UNCHANGED <<showQuestionnaire, fin, userData, financialHealthScore, effectPending,
                   crashed, exported, storage, toast, last, undone, maxId, ops>>

NextRecommend == RenderRecommendations

SpecRecommend == Init /\ [][NextRecommend]_vars

Titles(list) == {list[i] : i \in 1..Len(list)}

\* the position of a title in a list, or 0
PositionOf(list, title) ==
    IF title \in Titles(list) THEN CHOOSE i \in 1..Len(list) : list[i] = title ELSE 0

\* C14: for every input the recommendation list has at least one entry.
C14_RecommendationsNotEmpty == Len(recommendations) >= 1

\* no warning applies and the savings rate is below 20: the list holds the
\* increase-savings entry alone
C14_Witness ==
    /\ RatLess(recommendationInputs[1], RatInt(20))
    /\ RatLeq(RatInt(3), recommendationInputs[2])
    /\ RatLeq(recommendationInputs[3], Rat(7, 10))
    /\ recommendations = <<"Savings Boost Needed">>

\* C19: the list is, in this order, exactly one savings entry (the positive
\* one when savingsRate >= 20, otherwise the increase-savings one), then the
\* emergency-fund warning if and only if emergencyFund < 3, then the
\* expenses-too-high warning if and only if expenseToIncomeRatio > 0.7; it has
\* between 1 and 3 entries and nothing else.
C19_RecommendationsContent ==
    LET savingsRate == recommendationInputs[1]
        emergencyFund == recommendationInputs[2]
        expenseToIncomeRatio == recommendationInputs[3]
        alert == PositionOf(recommendations, "Emergency Fund Alert")
        gap == PositionOf(recommendations, "Income-Expense Gap")
    IN  /\ Len(recommendations) \in 1..3
        /\ recommendations[1] = IF RatLeq(RatInt(20), savingsRate)
                                THEN "Savings Superstar" ELSE "Savings Boost Needed"
        /\ \A i \in 2..Len(recommendations) :
              recommendations[i] \notin {"Savings Superstar", "Savings Boost Needed"}
        /\ alert # 0 <=> RatLess(emergencyFund, RatInt(3))
        /\ gap # 0 <=> RatLess(Rat(7, 10), expenseToIncomeRatio)
        /\ (alert # 0 /\ gap # 0) => alert < gap
        /\ Len(recommendations) = 1 + (IF alert # 0 THEN 1 ELSE 0) + (IF gap # 0 THEN 1 ELSE 0)

\* the three inputs are on their boundaries, 20, 3 and 0.7: the list is the
\* positive savings entry alone
C19_Witness ==
    /\ recommendationInputs = <<RatInt(20), RatInt(3), Rat(7, 10)>>
    /\ recommendations = <<"Savings Superstar">>

(***************************************************************************)
(* Claims about import and validation, checked under Spec                  *)
(***************************************************************************)
\* the text does not parse, or parses to something that is not an object
MalformedImport(text) == IF text.parses THEN text.value.kind # "object" ELSE TRUE

\* C15: after the import of a malformed content (text that does not parse,
\* or JSON that is not an object, such as null or a number) the in-memory
\* aggregate state is what it was before the import and the error toast is
\* shown.
C15_MalformedImportRejected ==
    (last.op = "importData" /\ MalformedImport(last.input)) =>
        /\ dataToSave = last.before
        /\ toast = "Error importing data. Please check the file format."

(***************************************************************************)
(* Loading and importing partial blobs: the page is constructed over a     *)
(* stored blob that lacks some of its fields or does not parse, the mount  *)
(* effect loads it, and files that lack some of their fields are imported. *)
(* Checked under SpecLoad.                                                 *)
(***************************************************************************)
BlobFields == DOMAIN SampleBlob

NumberFields == {"chequingBalance", "savingsBalance", "income", "expenses", "debt"}

ListFields == {"transactions", "goals", "budgetCategories"}

\* the sets of fields a blob lacks: none, one, all but one, all the numbers,
\* all the lists, all
MissingSets ==
    {{}, NumberFields, ListFields, BlobFields}
    \cup {{f} : f \in BlobFields}
    \cup {BlobFields \ {f} : f \in BlobFields}

PartialBlobs == {JSONobject(Restrict(SampleBlob, BlobFields \ M)) : M \in MissingSets}

InitLoad ==
    /\ showQuestionnaire = TRUE
    /\ chequingBalance = 0
    /\ savingsBalance = 0
    /\ income = 0
    /\ expenses = 0
    /\ debt = 0
    /\ transactions = <<>>
    /\ goals = <<>>
    /\ budgetCategories = <<>>
    /\ userData = BlankUserData
    /\ financialHealthScore = RatInt(0)
    /\ recommendationInputs = RecommendationInputs(income, expenses, savingsBalance)
    /\ recommendations = Recommendations(recommendationInputs)
    /\ effectPending = FALSE
    /\ crashed = FALSE
    /\ exported = Absent
    /\ storage \in {JSONstringify(b) : b \in PartialBlobs} \cup {Absent, Malformed}
    /\ toast = ""
    /\ last = NoAction
    /\ undone = NoUndo
    /\ maxId = 0
    /\ ops = 0

MountLoad == Mount /\ UNCHANGED ops

ImportLoad ==
    /\ ~showQuestionnaire
    /\ \E b \in PartialBlobs : importData(JSONstringify(b))
    /\ UNCHANGED ops

NextLoad ==
    \/ ScoreEffect
    \/ MountLoad
    \/ ImportLoad

SpecLoad == InitLoad /\ [][NextLoad]_vars

\* the last action loaded (mount effect) or imported an object blob
LoadedObject ==
    /\ last.op \in {"Mount", "importData"}
    /\ last.input.item = "text"
    /\ last.input.parses
    /\ last.input.value.kind = "object"

\* C16: loading or importing an object blob that lacks some of its fields
\* succeeds, sets every missing number (balances, income, expenses, debt) to 0
\* and every missing list (transactions, goals, budgetCategories) to the empty
\* list, and gives every present field the blob's value.
C16_MissingFieldsDefault ==
    LoadedObject =>
        LET blob == last.input.value.fields
            now == dataToSave.fields
        IN  /\ last.ok
            /\ last.op = "importData" => toast = "Data imported successfully"
            /\ ~showQuestionnaire
            /\ \A f \in NumberFields : now[f] = IF f \in DOMAIN blob THEN blob[f] ELSE 0
            /\ \A f \in ListFields : now[f] = IF f \in DOMAIN blob THEN blob[f] ELSE <<>>

\* a blob without debt, but with everything else, has been imported over a
\* state whose debt was not 0
C16_Witness ==
    /\ last.op = "importData"
    /\ LoadedObject
    /\ DOMAIN last.input.value.fields = BlobFields \ {"debt"}
    /\ last.before.fields.debt # 0
    /\ debt = 0
    /\ transactions # <<>>

\* the numeric texts typed that are not a non-negative number with at most
\* two decimals
InvalidNumberTexts == {<<"-", "2">>, <<"1", ".", "2", "3", "4">>}

\* the form of the last action lacks a required field or has an invalid number
RejectedForm ==
    \/ /\ last.op = "addTransaction"
       /\ \/ last.input.description = ""
          \/ last.input.category = ""
          \/ last.input.amount = EmptyText
          \/ last.input.amount \in InvalidNumberTexts
    \/ /\ last.op = "addGoal"
       /\ \/ last.input.name = ""
          \/ last.input.deadline = ""
          \/ last.input.target = EmptyText
          \/ last.input.current = EmptyText
          \/ last.input.target \in InvalidNumberTexts
          \/ last.input.current \in InvalidNumberTexts
    \/ /\ last.op = "addBudgetCategory"
       /\ \/ last.input.category = ""
          \/ last.input.limit = EmptyText
          \/ last.input.limit \in InvalidNumberTexts

\* C17: addTransaction, addGoal or addBudgetCategory called with a missing
\* required field or an invalid number is rejected: the aggregate state and
\* the persisted blob are what they were before the call.
C17_InvalidAddRejected ==
    [][RejectedForm' =>
          /\ ~last'.ok
          /\ dataToSave' = dataToSave
          /\ storage' = storage]_vars

\* an amount with three decimals has been rejected by a ledger that holds
\* transactions and has a persisted blob
C17_Witness ==
    /\ last.op = "addTransaction"
    /\ last.input.amount = <<"1", ".", "2", "3", "4">>
    /\ toast = "Please enter a valid amount"
    /\ transactions # <<>>
    /\ storage # Absent
    /\ transactions = last.before.fields.transactions

(***************************************************************************)
(* Further claims about the ledger, checked under SpecLedger               *)
(***************************************************************************)
\* C18: a valid addTransaction of type income with amount a adds a to income
\* and leaves expenses unchanged, one of type expense adds a to expenses and
\* leaves income unchanged, and the list grows by exactly one transaction,
\* the new one, in front of the others.
C18_AddUpdatesTotals ==
    JustAdded =>
        LET a == parseFloat(last.input.amount)
            b == last.before.fields
        IN  /\ IF last.input.type = "income"
               THEN income = b.income + a /\ expenses = b.expenses
               ELSE expenses = b.expenses + a /\ income = b.income
            /\ Len(transactions) = Len(b.transactions) + 1
            /\ Tail(transactions) = b.transactions
            /\ Head(transactions).amount = SignedAmount(last.input)
            /\ Head(transactions).category = last.input.category

\* an income and then a Food expense have been added to an empty ledger whose
\* totals were 0: income and expenses are the two amounts, the list has two
\* transactions and categoryTotal(Food) is the expense
C18_Witness ==
    /\ JustAdded
    /\ last.input.type = "expense"
    /\ last.input.category = "Food"
    /\ Len(transactions) = 2
    /\ transactions[2].type = "income"
    /\ income = transactions[2].amount
    /\ income > 0
    /\ last.before.fields.expenses = 0
    /\ expenses = parseFloat(last.input.amount)
    /\ CategoryTotal(transactions, "Food") = expenses

(***************************************************************************)
(* Claims about deletes and reset, checked under Spec                      *)
(***************************************************************************)
\* the last action of the step is a delete of something the state before
\* the step does not hold
DeleteOfAbsent ==
    \/ /\ last'.op = "deleteTransaction"
       /\ \A i \in 1..Len(transactions) : transactions[i].id # last'.id
    \/ /\ last'.op = "deleteGoal"
       /\ \A i \in 1..Len(goals) : goals[i].id # last'.id
    \/ /\ last'.op = "deleteBudgetCategory"
       /\ \A i \in 1..Len(budgetCategories) : budgetCategories[i].category # last'.input

\* C21: deleteTransaction with an id not in the list, deleteGoal with an id
\* not in the list and deleteBudgetCategory with an untracked category leave
\* the in-memory aggregate state unchanged and report no error: the toast is
\* the one shown before or the delete's own message.
C21_DeleteOfAbsentIsNoOp ==
    [][DeleteOfAbsent =>
          /\ dataToSave' = dataToSave
          /\ showQuestionnaire' = showQuestionnaire
          /\ toast' \in {toast, "Goal deleted successfully",
                         "Budget category deleted successfully"}]_vars

\* deleteGoal has been called with an id that none of the stored goals has,
\* and the goals are still there
C21_Witness ==
    /\ last.op = "deleteGoal"
    /\ goals # <<>>
    /\ \A i \in 1..Len(goals) : goals[i].id # last.id
    /\ goals = last.before.fields.goals

\* C22: when the persisted blob does not parse at startup, the load does not
\* end in an unhandled error: the page is up with the onboarding shown, the
\* aggregate state at its initial value, and an error is shown to the user.
C22_MalformedStorageSurvived ==
    (last.op = "Mount" /\ last.input = Malformed) =>
        /\ ~crashed
        /\ showQuestionnaire
        /\ transactions = <<>>
        /\ income = 0
        /\ toast # ""

(***************************************************************************)
(* Goals and budget categories after the onboarding: any interleaving of   *)
(* addGoal, deleteGoal, addBudgetCategory and deleteBudgetCategory.        *)
(* Checked under SpecPlans.                                                *)
(***************************************************************************)
PlanGoalForms ==
    { [name |-> "Vacation", target |-> <<"2">>, current |-> <<"1">>, deadline |-> "2025-12-31"],
      [name |-> "House", target |-> <<"0">>, current |-> <<"0">>, deadline |-> "2025-12-31"] }

PlanBudgetForms ==
    { [category |-> "Food", limit |-> <<"1">>],
      [category |-> "Rent", limit |-> <<"0">>] }

AddGoalPlans ==
    /\ ~showQuestionnaire
    /\ Len(goals) < MaxGoals
    /\ \E ng \in PlanGoalForms : addGoal(ng)
    /\ UNCHANGED ops

\* the delete button of a goal
DeleteGoalPlans ==
    /\ ~showQuestionnaire
    /\ \E i \in 1..Len(goals) : deleteGoal(goals[i].id)
    /\ UNCHANGED ops

AddBudgetCategoryPlans ==
    /\ ~showQuestionnaire
    /\ Len(budgetCategories) < MaxBudget
    /\ \E nb \in PlanBudgetForms : addBudgetCategory(nb)
    /\ UNCHANGED ops

\* the delete button of a budget category
DeleteBudgetCategoryPlans ==
    /\ ~showQuestionnaire
    /\ \E i \in 1..Len(budgetCategories) :
          deleteBudgetCategory(budgetCategories[i].category)
    /\ UNCHANGED ops

NextPlans ==
    \/ ScoreEffect
    \/ SubmitLedger
    \/ AddGoalPlans
    \/ DeleteGoalPlans
    \/ AddBudgetCategoryPlans
    \/ DeleteBudgetCategoryPlans

SpecPlans == InitLedger /\ [][NextPlans]_vars

\* C23: every stored goal has target > 0 and current >= 0 and every stored
\* budget category has limit > 0.
C23_PositiveTargetsAndLimits ==
    /\ \A i \in 1..Len(goals) : goals[i].target > 0 /\ goals[i].current >= 0
    /\ \A i \in 1..Len(budgetCategories) : budgetCategories[i].limit > 0

\* C27: no two goals share an id, and deleteGoal of the id of a stored goal
\* removes exactly one goal.
C27_GoalIdsUnique ==
    /\ \A i, j \in 1..Len(goals) : i # j => goals[i].id # goals[j].id
    /\ (last.op = "deleteGoal"
          /\ \E i \in 1..Len(last.before.fields.goals) :
                last.before.fields.goals[i].id = last.id) =>
          Len(goals) = Len(last.before.fields.goals) - 1

(***************************************************************************)
(* Claims about the order and the accounts of the ledger, checked under    *)
(* SpecLedger                                                              *)
(***************************************************************************)
\* t is b with some of its elements taken out, the others in their order
Embeds(t, b) ==
    \E f \in [1..Len(t) -> 1..Len(b)] :
        /\ \A i, j \in 1..Len(t) : i < j => f[i] < f[j]
        /\ \A i \in 1..Len(t) : b[f[i]] = t[i]

DeletedOne == last.op = "deleteTransaction" /\ last.ok

\* C24: addTransaction puts the new transaction at the head of the list in
\* front of the existing ones, whose order it keeps, and deleteTransaction
\* keeps the remaining transactions in their order.
C24_OrderKept ==
    /\ JustAdded =>
          /\ Head(transactions).description = last.input.description
          /\ Head(transactions).id = last.id
          /\ Tail(transactions) = last.before.fields.transactions
    /\ DeletedOne =>
          /\ Len(transactions) < Len(last.before.fields.transactions)
          /\ Embeds(transactions, last.before.fields.transactions)

\* a transaction that was neither the first nor the last of the list has
\* been deleted, and at least two remain
C24_Witness ==
    /\ DeletedOne
    /\ Len(transactions) >= 2
    /\ Head(last.before.fields.transactions).id # last.id
    /\ last.before.fields.transactions[Len(last.before.fields.transactions)].id # last.id

\* b without its element at position k
Without(b, k) == SubSeq(b, 1, k - 1) \o SubSeq(b, k + 1, Len(b))

\* C28: deleteTransaction(id) with id present removes exactly one
\* transaction: the list is the list before without one transaction of that
\* id, and the balance of that transaction's account goes down by its signed
\* amount.
C28_DeleteRemovesExactlyOne ==
    DeletedOne =>
        LET b == last.before.fields
        IN  \E k \in 1..Len(b.transactions) :
               /\ b.transactions[k].id = last.id
               /\ transactions = Without(b.transactions, k)
               /\ IF b.transactions[k].account = "chequing"
                  THEN chequingBalance = b.chequingBalance - b.transactions[k].amount
                  ELSE savingsBalance = b.savingsBalance - b.transactions[k].amount

RECURSIVE AccountSum(_, _)
\* the sum of the signed amounts of the transactions of an account
AccountSum(txs, account) ==
    IF txs = <<>> THEN 0
    ELSE (IF Head(txs).account = account THEN Head(txs).amount ELSE 0)
         + AccountSum(Tail(txs), account)

\* C29: once the onboarding is completed, each account's balance equals the
\* sum of the signed amounts of the transactions of that account in the list.
C29_BalancesMatchList ==
    ~showQuestionnaire =>
        /\ chequingBalance = AccountSum(transactions, "chequing")
        /\ savingsBalance = AccountSum(transactions, "savings")

(***************************************************************************)
(* Claims about the reset, checked under Spec                              *)
(***************************************************************************)
\* the state of a first visit: nothing entered, nothing stored, onboarding
BlankState ==
    /\ chequingBalance = 0 /\ savingsBalance = 0
    /\ income = 0 /\ expenses = 0 /\ debt = 0
    /\ transactions = <<>> /\ goals = <<>> /\ budgetCategories = <<>>
    /\ userData = BlankUserData
    /\ storage = Absent
    /\ showQuestionnaire

\* C25: after resetAllData both balances, income, expenses and debt are 0,
\* the three lists are empty, the profile is blank, nothing is stored and
\* the onboarding is shown; a page load that follows the reset starts in the
\* onboarding with the same blank state.
C25_ResetYieldsInitialState ==
    /\ [](last.op = "resetAllData" => BlankState)
    /\ [][(last.op = "resetAllData" /\ last'.op = "Mount") => (BlankState' /\ ~crashed')]_vars

\* a reset of a ledger that had transactions and a stored blob
C25_Witness ==
    /\ last.op = "resetAllData"
    /\ last.before.fields.transactions # <<>>
    /\ last.before.fields.income > 0
    /\ ~effectPending

(***************************************************************************)
(* The score effect, checked under SpecLive: React runs the effects of a   *)
(* render before it handles the next event, so the pending effect is       *)
(* always taken.                                                           *)
(***************************************************************************)
SpecLive == Spec /\ WF_vars(ScoreEffect)

\* no effect is waiting
Quiescent == ~effectPending

\* C26: after an operation that changes income, expenses, the savings
\* balance or debt the score effect runs before the next user action, and in
\* every state where no effect is waiting financialHealthScore equals
\* calculateFinancialHealth(income, expenses, savingsBalance, debt).
C26_ScoreFollowsState ==
    /\ [](Quiescent =>
            financialHealthScore
               = calculateFinancialHealth(income, expenses, savingsBalance, debt))
    /\ [][effectPending => (~effectPending' /\ last' = last /\ fin' = fin)]_vars
    /\ (effectPending ~> Quiescent)

\* the score has been recomputed after an import that changed the debt and
\* nothing else of what the score depends on
C26_Witness ==
    /\ Quiescent
    /\ last.op = "importData" /\ last.ok
    /\ debt # last.before.fields.debt
    /\ <<income, expenses, savingsBalance>>
          = <<last.before.fields.income, last.before.fields.expenses,
              last.before.fields.savingsBalance>>
    /\ financialHealthScore
          # calculateFinancialHealth(income, expenses, savingsBalance,
                                     last.before.fields.debt)

(***************************************************************************)
(* Export and import: the page is loaded over a stored sample, the ledger  *)
(* and the plans are edited, the data is exported, and the exported file   *)
(* is imported, at once or after further edits.  Checked under SpecExport. *)
(***************************************************************************)
InitExport ==
    /\ showQuestionnaire = TRUE
    /\ chequingBalance = 0
    /\ savingsBalance = 0
    /\ income = 0
    /\ expenses = 0
    /\ debt = 0
    /\ transactions = <<>>
    /\ goals = <<>>
    /\ budgetCategories = <<>>
    /\ userData = BlankUserData
    /\ financialHealthScore = RatInt(0)
    /\ recommendationInputs = RecommendationInputs(income, expenses, savingsBalance)
    /\ recommendations = Recommendations(recommendationInputs)
    /\ effectPending = FALSE
    /\ crashed = FALSE
    /\ exported = Absent
    /\ storage = JSONstringify(JSONobject(SampleBlob))
    /\ toast = ""
    /\ last = NoAction
    /\ undone = NoUndo
    /\ maxId = 0
    /\ ops = 0

ExportDataApp == ops < MaxOps /\ ~showQuestionnaire /\ exportData /\ ops' = ops + 1

\* the file chosen in the import dialog is the one exportData wrote
ImportExported ==
    /\ ops < MaxOps
    /\ ~showQuestionnaire
    /\ exported # Absent
    /\ importData(exported)
    /\ ops' = ops + 1

NextExport ==
    \/ ScoreEffect
    \/ MountLoad
    \/ AddTransactionApp
    \/ DeleteTransactionApp
    \/ AddGoalApp
    \/ DeleteBudgetCategoryApp
    \/ ExportDataApp
    \/ ImportExported

SpecExport == InitExport /\ [][NextExport]_vars

\* two blobs have the same financial part, every field of it present
SameFinancialState(a, b) ==
    \A f \in BlobFields \ {"userData"} :
        Has(a, f) /\ Has(b, f) /\ a.fields[f] = b.fields[f]

\* C30: the file exportData writes holds the balances, income, expenses,
\* debt, transactions (in their order), goals and budgetCategories of the
\* state it is taken from, and after importData of that file these have the
\* values they had at export time, whatever was done in between.
C30_ExportImportIsIdentity ==
    /\ [][last'.op = "exportData" =>
             SameFinancialState(exported'.value, dataToSave)]_vars
    /\ []((last.op = "importData" /\ last.ok /\ last.input = exported) =>
             SameFinancialState(dataToSave, exported.value))

\* the file was exported, the ledger and the goals were edited, and the
\* import has brought back the exported lists
C30_Witness ==
    /\ last.op = "importData" /\ last.ok /\ last.input = exported
    /\ ~SameFinancialState(last.before, dataToSave)
    /\ transactions # <<>>
    /\ goals # <<>>
    /\ debt > 0

====
